---- MODULE Spec2Model ----
(***************************************************************************)
(* Model of tools/release/publish-release.ts: the PublishReleaseTask       *)
(* workflow.  One run of the script is one behaviour; every call to an     *)
(* external collaborator (git, gulp, npm, a prompt) is one step whose      *)
(* result is chosen by the environment.  Strings the script inspects       *)
(* (the manifest version, the commit title) are sequences of one-character *)
(* strings, so that matching, parsing and formatting are computed.         *)
(***************************************************************************)
EXTENDS Integers, Sequences, FiniteSets, TLC

-----------------------------------------------------------------------------
(* State *)

VARIABLES
    pc,                   \* position of the run in the script
    exitCode,             \* process exit status (meaningful once pc = "exited")
    exitAt,               \* the step that ended the process ("" while running)
    manifestVersion,      \* packageJson.version, as read from package.json
    currentVersion,       \* this.currentVersion
    commitTitle,          \* title of HEAD on the publish branch
    branch,               \* branch the repository is on
    tags,                 \* git tags of the repository
    npmDistTag,           \* const npmDistTag in run()
    hasFailed,            \* let hasFailed in checkReleaseOutput()
    failedAuthentication, \* let failedAuthentication in checkNpmAuthentication()
    i,                    \* loop counter of the login loop
    pkgIdx,               \* position of the forEach / for..of over releasePackages
    published,            \* packages that npm accepted, in publish order
    calls                 \* history: the collaborator calls made so far, with results

vars == <<pc, exitCode, exitAt, manifestVersion, currentVersion, commitTitle, branch,
          tags, npmDistTag, hasFailed, failedAuthentication, i, pkgIdx, published, calls>>

-----------------------------------------------------------------------------
(* Bounds and program constants *)

NumPackages == 3

MAX_NPM_LOGIN_TRIES == 2

AllPackages == <<"cdk", "material", "cdk-experimental", "material-experimental",
                 "material-moment-adapter">>

releasePackages == SubSeq(AllPackages, 1, NumPackages)

NULL == [major |-> -1, minor |-> -1, patch |-> -1, prereleaseLabel |-> "null",
         prereleaseNumber |-> -1]

-----------------------------------------------------------------------------
(* Strings *)

Digits == <<"0", "1", "2", "3", "4", "5", "6", "7", "8", "9">>

IsDigit(c) == \E d \in 1..10 : Digits[d] = c

DigitVal(c) == (CHOOSE d \in 1..10 : Digits[d] = c) - 1

AllDigits(s) == Len(s) > 0 /\ \A k \in 1..Len(s) : IsDigit(s[k])

RECURSIVE ParseNat(_)
ParseNat(s) ==
    IF Len(s) = 0 THEN 0
    ELSE 10 * ParseNat(SubSeq(s, 1, Len(s) - 1)) + DigitVal(s[Len(s)])

RECURSIVE FormatNat(_)
FormatNat(n) ==
    IF n < 10 THEN <<Digits[n + 1]>>
    ELSE FormatNat(n \div 10) \o <<Digits[(n % 10) + 1]>>

\* index of the first occurrence of character c in s, 0 when absent
IndexOf(s, c) ==
    IF \E k \in 1..Len(s) : s[k] = c
    THEN CHOOSE k \in 1..Len(s) : s[k] = c /\ \A j \in 1..(k - 1) : s[j] # c
    ELSE 0

RECURSIVE Split(_, _)
Split(s, c) ==
    LET k == IndexOf(s, c) IN
    IF k = 0 THEN <<s>>
    ELSE <<SubSeq(s, 1, k - 1)>> \o Split(SubSeq(s, k + 1, Len(s)), c)

Contains(s, pat) ==
    \E k \in 0..(Len(s) - Len(pat)) : SubSeq(s, k + 1, k + Len(pat)) = pat

StartsWith(s, pat) ==
    Len(s) >= Len(pat) /\ SubSeq(s, 1, Len(pat)) = pat

-----------------------------------------------------------------------------
(* Version names *)

LabelText(label) ==
    CASE label = "alpha" -> <<"a", "l", "p", "h", "a">>
      [] label = "beta"  -> <<"b", "e", "t", "a">>
      [] label = "rc"    -> <<"r", "c">>
      [] OTHER           -> <<>>

Labels == {"alpha", "beta", "rc"}

parseVersionName(s) ==
    LET dash == IndexOf(s, "-")
        core == IF dash = 0 THEN s ELSE SubSeq(s, 1, dash - 1)
        pre  == IF dash = 0 THEN <<>> ELSE SubSeq(s, dash + 1, Len(s))
        nums == Split(core, ".")
        preParts == Split(pre, ".")
        coreOk == Len(nums) = 3 /\ \A k \in 1..3 : AllDigits(nums[k])
        preOk == /\ Len(preParts) = 2
                 /\ \E l \in Labels : LabelText(l) = preParts[1]
                 /\ AllDigits(preParts[2])
    IN  IF ~coreOk \/ (dash # 0 /\ ~preOk) THEN NULL
        ELSE [major |-> ParseNat(nums[1]), minor |-> ParseNat(nums[2]),
              patch |-> ParseNat(nums[3]),
              prereleaseLabel |->
                  IF dash = 0 THEN ""
                  ELSE CHOOSE l \in Labels : LabelText(l) = preParts[1],
              prereleaseNumber |-> IF dash = 0 THEN 0 ELSE ParseNat(preParts[2])]

format(v) ==
    FormatNat(v.major) \o <<".">> \o FormatNat(v.minor) \o <<".">> \o FormatNat(v.patch)
    \o (IF v.prereleaseLabel = "" THEN <<>>
        ELSE <<"-">> \o LabelText(v.prereleaseLabel) \o <<".">>
             \o FormatNat(v.prereleaseNumber))

PublishBranchName(v) ==
    FormatNat(v.major) \o <<".">> \o FormatNat(v.minor) \o <<".", "x">>

InitialBranch == <<"m", "a", "s", "t", "e", "r">>

ManifestVersions == {
    <<"5", ".", "0", ".", "0">>,
    <<"5", ".", "0", ".", "0", "-", "r", "c", ".", "1">>,
    <<"6", ".", "0", "1", ".", "2", "-", "b", "e", "t", "a", ".", "0">>,
    <<"1", "2", ".", "3", ".", "4">>,
    <<"5", ".", "0">>,
    <<"v", "5", ".", "0", ".", "0">>,
    <<"5", ".", "0", ".", "0", "-", "f", "o", "o", ".", "1">>,
    <<"5", ".", "0", ".", "0", "-", "r", "c">>,
    <<"5", ".", ".", "0">>,
    <<>> }

-----------------------------------------------------------------------------
(* Commit titles *)

BUMP_PATTERN == <<"c", "h", "o", "r", "e", ":", " ", "b", "u", "m", "p", " ",
                  "v", "e", "r", "s", "i", "o", "n">>

CommitTitles == {
    <<"c", "h", "o", "r", "e", ":", " ", "b", "u", "m", "p", " ", "v", "e", "r", "s",
      "i", "o", "n", " ", "t", "o", " ", "5", ".", "0", ".", "0">>,
    <<"R", "e", "v", "e", "r", "t", " ", "c", "h", "o", "r", "e", ":", " ", "b", "u",
      "m", "p", " ", "v", "e", "r", "s", "i", "o", "n">>,
    <<"f", "i", "x", ":", " ", "t", "y", "p", "o">>,
    <<"c", "h", "o", "r", "e", ":", " ", "b", "u", "m", "p", " ", " ", "v", "e", "r",
      "s", "i", "o", "n">>,
    <<"c", "h", "o", "r", "e", ":", " ", "B", "u", "m", "p", " ", "v", "e", "r", "s",
      "i", "o", "n">>,
    <<"c", "h", "o", "r", "e", ":", " ", "b", "u", "m", "p", " ", "v", "e", "r", "s",
      "i", "o">>,
    <<>> }

IsVersionBumpTitle_anchored(title) == StartsWith(title, BUMP_PATTERN)

IsVersionBumpTitle(title) == Contains(title, BUMP_PATTERN)

-----------------------------------------------------------------------------
(* Helpers of the run *)

\* process.exit(code), or the end of the process for another reason
Exit(code, at) == pc' = "exited" /\ exitCode' = code /\ exitAt' = at

Goto(p) == pc' = p /\ UNCHANGED <<exitCode, exitAt>>

Call(op, arg, tag, ok) == [op |-> op, arg |-> arg, tag |-> tag, ok |-> ok]

Log(op, arg, tag, ok) == calls' = Append(calls, Call(op, arg, tag, ok))

\* Exit status of a process whose only failure is a rejected promise nobody
\* handles: Node before 15 warns and ends with 0, Node 15 and later end with 1.
UnhandledRejectionExitCodes == {0, 1}

DistTags == {"latest", "next"}

NpmErrorOutputs == {"", "npm ERR! code E403"}

IsParsed_always(v) == TRUE

IsParsed(v) == v # NULL

NeedsStableConfirmation_anyVersion(tag, v) == tag = "next"

NeedsStableConfirmation(tag, v) == tag = "next" /\ v.prereleaseLabel = ""

NextHasFailed_lastOnly(failed, ok) == ~ok

NextHasFailed(failed, ok) == IF ~ok THEN TRUE ELSE failed

LoginLoopContinues_inclusive(n) == n <= MAX_NPM_LOGIN_TRIES

LoginLoopContinues(n) == n < MAX_NPM_LOGIN_TRIES

PublishFailed_ignored(errorOutput) == FALSE

PublishFailed_inverted(errorOutput) == errorOutput = ""

PublishFailed(errorOutput) == errorOutput # ""

PackageAt_reversed(k) == releasePackages[Len(releasePackages) + 1 - k]

PackageAt_first(k) == releasePackages[1]

PackageAt(k) == releasePackages[k]

TagName_manifest(v, manifest) == manifest

TagName(v, manifest) == format(v)

\* the checks run() makes, in the order it makes them, up to the dist-tag prompt
RunOrder_switchFirst ==
    <<"switchToPublishBranch", "verifyNoUncommittedChanges",
      "verifyLastCommitVersionBump", "verifyLocalCommitsMatchUpstream",
      "promptForNpmDistTag">>

RunOrder ==
    <<"verifyNoUncommittedChanges", "switchToPublishBranch",
      "verifyLastCommitVersionBump", "verifyLocalCommitsMatchUpstream",
      "promptForNpmDistTag">>

StepAfter(step) ==
    RunOrder[(CHOOSE k \in 1..Len(RunOrder) : RunOrder[k] = step) + 1]

\* releasePackages.forEach visits every element, whatever hasFailed is
ValidationLoopDone_shortCircuit(k, failed) == k > Len(releasePackages) \/ failed

ValidationLoopDone(k, failed) == k > Len(releasePackages)

\* i++ of the login loop
NextTry_stuck(n) == n

NextTry(n) == n + 1

\* the dist tag handed to runNpmPublish
PublishDistTag_default(tag) == "latest"

PublishDistTag(tag) == tag

-----------------------------------------------------------------------------
(* Initial state: the process has started, nothing has run yet *)

Init ==
    /\ pc = "constructor"
    /\ exitCode = 0
    /\ exitAt = ""
    /\ manifestVersion \in ManifestVersions
    /\ currentVersion = NULL
    /\ commitTitle \in CommitTitles
    /\ branch = InitialBranch
    /\ tags = {}
    /\ npmDistTag = ""
    /\ hasFailed = FALSE
    /\ failedAuthentication = FALSE
    /\ i = 0
    /\ pkgIdx = 0
    /\ published = <<>>
    /\ calls = <<>>

-----------------------------------------------------------------------------
(* Steps of the script *)

\* new PublishReleaseTask(...): parse the manifest version or exit
Constructor ==
    /\ pc = "constructor"
    /\ currentVersion' = parseVersionName(manifestVersion)
    /\ Log("parseVersionName", "", "", IsParsed(currentVersion'))
    /\ IF ~IsParsed(currentVersion')
       THEN Exit(1, "parseVersionName")
       ELSE Goto(RunOrder[1])
    /\ UNCHANGED <<manifestVersion, commitTitle, branch, tags, npmDistTag, hasFailed,
                   failedAuthentication, i, pkgIdx, published>>

VerifyNoUncommittedChanges ==
    /\ pc = "verifyNoUncommittedChanges"
    /\ \E clean \in BOOLEAN :
        /\ Log("verifyNoUncommittedChanges", "", "", clean)
        /\ IF clean THEN Goto(StepAfter("verifyNoUncommittedChanges"))
           ELSE Exit(1, "verifyNoUncommittedChanges")
    /\ UNCHANGED <<manifestVersion, currentVersion, commitTitle, branch, tags, npmDistTag,
                   hasFailed, failedAuthentication, i, pkgIdx, published>>

SwitchToPublishBranch ==
    /\ pc = "switchToPublishBranch"
    /\ \E switched \in BOOLEAN :
        /\ Log("switchToPublishBranch", "", "", switched)
        /\ IF switched
           THEN branch' = PublishBranchName(currentVersion)
                /\ Goto(StepAfter("switchToPublishBranch"))
           ELSE branch' = branch /\ Exit(1, "switchToPublishBranch")
    /\ UNCHANGED <<manifestVersion, currentVersion, commitTitle, tags, npmDistTag,
                   hasFailed, failedAuthentication, i, pkgIdx, published>>

\* variant that checks out the previous branch again before exiting
VerifyLastCommitVersionBump_restoring ==
    /\ pc = "verifyLastCommitVersionBump"
    /\ Log("verifyLastCommitVersionBump", "", "", IsVersionBumpTitle(commitTitle))
    /\ IF ~IsVersionBumpTitle(commitTitle)
       THEN Exit(1, "verifyLastCommitVersionBump") /\ branch' = InitialBranch
       ELSE Goto(StepAfter("verifyLastCommitVersionBump")) /\ branch' = branch
    /\ UNCHANGED <<manifestVersion, currentVersion, commitTitle, tags, npmDistTag,
                   hasFailed, failedAuthentication, i, pkgIdx, published>>

VerifyLastCommitVersionBump ==
    /\ pc = "verifyLastCommitVersionBump"
    /\ Log("verifyLastCommitVersionBump", "", "", IsVersionBumpTitle(commitTitle))
    /\ IF ~IsVersionBumpTitle(commitTitle)
       THEN Exit(1, "verifyLastCommitVersionBump")
       ELSE Goto(StepAfter("verifyLastCommitVersionBump"))
    /\ UNCHANGED <<manifestVersion, currentVersion, commitTitle, branch, tags, npmDistTag,
                   hasFailed, failedAuthentication, i, pkgIdx, published>>

VerifyLocalCommitsMatchUpstream ==
    /\ pc = "verifyLocalCommitsMatchUpstream"
    /\ \E matches \in BOOLEAN :
        /\ Log("verifyLocalCommitsMatchUpstream", "", "", matches)
        /\ IF matches THEN Goto(StepAfter("verifyLocalCommitsMatchUpstream"))
           ELSE Exit(1, "verifyLocalCommitsMatchUpstream")
    /\ UNCHANGED <<manifestVersion, currentVersion, commitTitle, branch, tags, npmDistTag,
                   hasFailed, failedAuthentication, i, pkgIdx, published>>

PromptForNpmDistTag ==
    /\ pc = "promptForNpmDistTag"
    /\ \E tag \in DistTags :
        /\ npmDistTag' = tag
        /\ Log("promptForNpmDistTag", "", tag, TRUE)
        /\ IF NeedsStableConfirmation(tag, currentVersion)
           THEN Goto("promptStableVersionForNextTag")
           ELSE Goto("buildClean")
    /\ UNCHANGED <<manifestVersion, currentVersion, commitTitle, branch, tags,
                   hasFailed, failedAuthentication, i, pkgIdx, published>>

PromptStableVersionForNextTag ==
    /\ pc = "promptStableVersionForNextTag"
    /\ \E answer \in BOOLEAN :
        /\ Log("promptStableVersionForNextTag", "", "", answer)
        /\ IF ~answer THEN Exit(0, "promptStableVersionForNextTag")
           ELSE Goto("buildClean")
    /\ UNCHANGED <<manifestVersion, currentVersion, commitTitle, branch, tags, npmDistTag,
                   hasFailed, failedAuthentication, i, pkgIdx, published>>

\* execSync('gulp clean'): throws when the command exits with a non-zero status;
\* the exception rejects the promise of run(), which the entry point never handles
BuildClean ==
    /\ pc = "buildClean"
    /\ \E status \in {0, 1} :
        /\ Log("gulp clean", "", "", status = 0)
        /\ IF status = 0 THEN Goto("buildRelease")
           ELSE \E code \in UnhandledRejectionExitCodes : Exit(code, "buildReleasePackages")
    /\ UNCHANGED <<manifestVersion, currentVersion, commitTitle, branch, tags, npmDistTag,
                   hasFailed, failedAuthentication, i, pkgIdx, published>>

\* execSync('gulp <name>:build-release ...'), then checkReleaseOutput() starts
BuildRelease ==
    /\ pc = "buildRelease"
    /\ \E status \in {0, 1} :
        /\ Log("gulp build-release", "", "", status = 0)
        /\ IF status = 0
           THEN Goto("checkReleaseOutput") /\ hasFailed' = FALSE /\ pkgIdx' = 1
           ELSE /\ \E code \in UnhandledRejectionExitCodes :
                       Exit(code, "buildReleasePackages")
                /\ UNCHANGED <<hasFailed, pkgIdx>>
    /\ UNCHANGED <<manifestVersion, currentVersion, commitTitle, branch, tags, npmDistTag,
                   failedAuthentication, i, published>>

\* one iteration of releasePackages.forEach in checkReleaseOutput()
CheckReleasePackage ==
    /\ pc = "checkReleaseOutput"
    /\ ~ValidationLoopDone(pkgIdx, hasFailed)
    /\ \E ok \in BOOLEAN :
        /\ Log("checkReleasePackage", PackageAt(pkgIdx), "", ok)
        /\ hasFailed' = NextHasFailed(hasFailed, ok)
    /\ pkgIdx' = pkgIdx + 1
    /\ Goto("checkReleaseOutput")
    /\ UNCHANGED <<manifestVersion, currentVersion, commitTitle, branch, tags, npmDistTag,
                   failedAuthentication, i, published>>

\* after the forEach: abort if any validation failed
CheckReleaseOutputEnd ==
    /\ pc = "checkReleaseOutput"
    /\ ValidationLoopDone(pkgIdx, hasFailed)
    /\ IF hasFailed THEN Exit(1, "checkReleaseOutput") ELSE Goto("createTag")
    /\ UNCHANGED <<manifestVersion, currentVersion, commitTitle, branch, tags, npmDistTag,
                   hasFailed, failedAuthentication, i, pkgIdx, published, calls>>

CreateTag ==
    /\ pc = "createTag"
    /\ tags' = tags \cup {TagName(currentVersion, manifestVersion)}
    /\ Log("createTag", "", "", TRUE)
    /\ Goto("checkNpmAuthentication")
    /\ UNCHANGED <<manifestVersion, currentVersion, commitTitle, branch, npmDistTag,
                   hasFailed, failedAuthentication, i, pkgIdx, published>>

\* checkNpmAuthentication() up to the start of the login loop
CheckNpmAuthentication ==
    /\ pc = "checkNpmAuthentication"
    /\ \E authenticated \in BOOLEAN :
        /\ Log("isNpmAuthenticated", "", "", authenticated)
        /\ IF authenticated
           THEN Goto("promptConfirmReleasePublish")
                /\ UNCHANGED <<failedAuthentication, i>>
           ELSE Goto("loginLoop") /\ failedAuthentication' = FALSE /\ i' = 0
    /\ UNCHANGED <<manifestVersion, currentVersion, commitTitle, branch, tags, npmDistTag,
                   hasFailed, pkgIdx, published>>

\* one iteration of the login loop
NpmLoginTry ==
    /\ pc = "loginLoop"
    /\ LoginLoopContinues(i)
    /\ \E loggedIn \in BOOLEAN :
        /\ Log("runInteractiveNpmLogin", "", "", loggedIn)
        /\ IF loggedIn
           THEN Goto("afterLoginLoop") /\ UNCHANGED <<failedAuthentication, i>>
           ELSE Goto("loginLoop") /\ failedAuthentication' = TRUE /\ i' = NextTry(i)
    /\ UNCHANGED <<manifestVersion, currentVersion, commitTitle, branch, tags, npmDistTag,
                   hasFailed, pkgIdx, published>>

\* variant without the failedAuthentication check
NpmLoginEnd_unchecked ==
    /\ \/ pc = "afterLoginLoop"
       \/ pc = "loginLoop" /\ ~LoginLoopContinues(i)
    /\ Goto("promptConfirmReleasePublish")
    /\ UNCHANGED <<manifestVersion, currentVersion, commitTitle, branch, tags, npmDistTag,
                   hasFailed, failedAuthentication, i, pkgIdx, published, calls>>

\* after the login loop (left by break or by its condition)
NpmLoginEnd ==
    /\ \/ pc = "afterLoginLoop"
       \/ pc = "loginLoop" /\ ~LoginLoopContinues(i)
    /\ IF failedAuthentication
       THEN Exit(1, "checkNpmAuthentication")
       ELSE Goto("promptConfirmReleasePublish")
    /\ UNCHANGED <<manifestVersion, currentVersion, commitTitle, branch, tags, npmDistTag,
                   hasFailed, failedAuthentication, i, pkgIdx, published, calls>>

PromptConfirmReleasePublish ==
    /\ pc = "promptConfirmReleasePublish"
    /\ \E answer \in BOOLEAN :
        /\ Log("promptConfirmReleasePublish", "", "", answer)
        /\ IF ~answer
           THEN Exit(0, "promptConfirmReleasePublish") /\ pkgIdx' = pkgIdx
           ELSE Goto("publish") /\ pkgIdx' = 1
    /\ UNCHANGED <<manifestVersion, currentVersion, commitTitle, branch, tags, npmDistTag,
                   hasFailed, failedAuthentication, i, published>>

\* one iteration of the publish loop of run()
PublishPackageToNpm ==
    /\ pc = "publish"
    /\ pkgIdx <= Len(releasePackages)
    /\ \E errorOutput \in NpmErrorOutputs :
        /\ Log("runNpmPublish", PackageAt(pkgIdx), PublishDistTag(npmDistTag),
               errorOutput = "")
        /\ published' = IF errorOutput = "" THEN Append(published, PackageAt(pkgIdx))
                        ELSE published
        /\ IF PublishFailed(errorOutput)
           THEN Exit(1, "publishPackageToNpm") /\ pkgIdx' = pkgIdx
           ELSE Goto("publish") /\ pkgIdx' = pkgIdx + 1
    /\ UNCHANGED <<manifestVersion, currentVersion, commitTitle, branch, tags, npmDistTag,
                   hasFailed, failedAuthentication, i>>

\* the publish loop is over: run() reports success and the process ends normally
RunComplete ==
    /\ pc = "publish"
    /\ pkgIdx > Len(releasePackages)
    /\ Exit(0, "success")
    /\ UNCHANGED <<manifestVersion, currentVersion, commitTitle, branch, tags, npmDistTag,
                   hasFailed, failedAuthentication, i, pkgIdx, published, calls>>

Next ==
    \/ Constructor
    \/ VerifyNoUncommittedChanges
    \/ SwitchToPublishBranch
    \/ VerifyLastCommitVersionBump
    \/ VerifyLocalCommitsMatchUpstream
    \/ PromptForNpmDistTag
    \/ PromptStableVersionForNextTag
    \/ BuildClean
    \/ BuildRelease
    \/ CheckReleasePackage
    \/ CheckReleaseOutputEnd
    \/ CreateTag
    \/ CheckNpmAuthentication
    \/ NpmLoginTry
    \/ NpmLoginEnd
    \/ PromptConfirmReleasePublish
    \/ PublishPackageToNpm
    \/ RunComplete

Spec == Init /\ [][Next]_vars

\* every external command and every prompt eventually returns
FairSpec == Spec /\ WF_vars(Next)

-----------------------------------------------------------------------------
(* Vocabulary of the properties *)

CallsOf(op) == SelectSeq(calls, LAMBDA c : c.op = op)

Did(op) == \E k \in 1..Len(calls) : calls[k].op = op

DidWith(op, ok) == \E k \in 1..Len(calls) : calls[k].op = op /\ calls[k].ok = ok

LastCallIs(op, ok) ==
    Len(calls) > 0 /\ calls[Len(calls)].op = op /\ calls[Len(calls)].ok = ok

IsPrefix(s, t) == Len(s) <= Len(t) /\ SubSeq(t, 1, Len(s)) = s

NothingPublished == published = <<>> /\ ~Did("runNpmPublish")

\* the run is past the authentication step and has not failed there
PastAuthentication ==
    \/ pc \in {"promptConfirmReleasePublish", "publish"}
    \/ pc = "exited" /\ exitAt \in {"promptConfirmReleasePublish", "publishPackageToNpm",
                                    "success"}

-----------------------------------------------------------------------------
(* C1: when NPM is unauthenticated and an interactive login succeeds on     *)
(* attempt 1 or on attempt 2, the run proceeds to the final publish         *)
(* confirmation instead of exiting with a failure, and no login attempt     *)
(* follows the successful one.                                              *)
C1_LoginSuccessProceeds ==
    LET logins == CallsOf("runInteractiveNpmLogin") IN
    \A k \in 1..Len(logins) :
        logins[k].ok =>
            /\ k = Len(logins)
            /\ exitAt # "checkNpmAuthentication"
            /\ pc # "afterLoginLoop" => PastAuthentication

(* C2: runInteractiveNpmLogin is called at most MAX_NPM_LOGIN_TRIES = 2     *)
(* times in a run, never when isNpmAuthenticated() returned true, and when  *)
(* both attempts failed the process ends with exit code 1 without asking    *)
(* the publish confirmation and without publishing anything.                *)
C2_LoginBounded ==
    LET logins == CallsOf("runInteractiveNpmLogin") IN
    /\ MAX_NPM_LOGIN_TRIES = 2
    /\ Len(logins) <= MAX_NPM_LOGIN_TRIES
    /\ DidWith("isNpmAuthenticated", TRUE) => Len(logins) = 0
    /\ (/\ Len(logins) = MAX_NPM_LOGIN_TRIES
        /\ \A k \in 1..Len(logins) : ~logins[k].ok
        /\ pc # "loginLoop")
       => /\ pc = "exited"
          /\ exitCode = 1
          /\ ~Did("promptConfirmReleasePublish")
          /\ NothingPublished

C2_Witness ==
    LET logins == CallsOf("runInteractiveNpmLogin") IN
    /\ pc = "exited"
    /\ exitAt = "checkNpmAuthentication"
    /\ Len(logins) = 2
    /\ ~logins[1].ok /\ ~logins[2].ok

(* C3: if checkReleasePackage reported a failure for any package, nothing   *)
(* is published, no release tag is created, and the process ends with exit  *)
(* code 1 once validation is over.                                          *)
C3_ValidationGate ==
    DidWith("checkReleasePackage", FALSE) =>
        /\ NothingPublished
        /\ tags = {}
        /\ ~Did("createTag")
        /\ pc \in {"checkReleaseOutput", "exited"}
        /\ pc = "exited" => exitCode = 1 /\ exitAt = "checkReleaseOutput"

C3_Witness ==
    LET checks == CallsOf("checkReleasePackage") IN
    /\ pc = "exited"
    /\ exitAt = "checkReleaseOutput"
    /\ Len(checks) = Len(releasePackages)
    /\ ~checks[1].ok
    /\ \A k \in 2..Len(checks) : checks[k].ok

(* C4: packages are published one at a time in the order of releasePackages;*)
(* the first runNpmPublish call that returns error output ends the process  *)
(* with exit code 1 and no later package is published.                      *)
C4_PublishOrder ==
    LET pubs == CallsOf("runNpmPublish") IN
    /\ Len(pubs) <= Len(releasePackages)
    /\ \A k \in 1..Len(pubs) : pubs[k].arg = releasePackages[k]
    /\ \A k \in 1..Len(pubs) :
        ~pubs[k].ok =>
            /\ k = Len(pubs)
            /\ pc = "exited"
            /\ exitCode = 1
            /\ published = SubSeq(releasePackages, 1, k - 1)

C4_Witness ==
    LET pubs == CallsOf("runNpmPublish") IN
    /\ Len(releasePackages) >= 3
    /\ Len(pubs) = 2
    /\ pubs[1].ok /\ ~pubs[2].ok
    /\ pc = "exited"
    /\ published = <<releasePackages[1]>>

(* C5: the exit code is 0 exactly when the run ends by a declined           *)
(* confirmation prompt or by normal success; every other termination ends   *)
(* with exit code 1.                                                        *)
C5_ExitCodes ==
    pc = "exited" =>
        (exitCode = 0 <=> exitAt \in {"promptStableVersionForNextTag",
                                      "promptConfirmReleasePublish", "success"})

(* C6: the stable-version confirmation is asked if and only if the chosen   *)
(* dist tag is "next" and the version has no pre-release label; declining   *)
(* ends the run with exit code 0 before any build, tag or publish, and      *)
(* accepting continues to the build.                                        *)
C6_StablePrompt ==
    /\ Did("promptForNpmDistTag") =>
        ((pc = "promptStableVersionForNextTag" \/ Did("promptStableVersionForNextTag"))
            <=> (npmDistTag = "next" /\ currentVersion.prereleaseLabel = ""))
    /\ ~Did("promptForNpmDistTag") =>
        (pc # "promptStableVersionForNextTag" /\ ~Did("promptStableVersionForNextTag"))
    /\ DidWith("promptStableVersionForNextTag", FALSE) =>
        /\ pc = "exited" /\ exitCode = 0
        /\ ~Did("gulp clean") /\ ~Did("gulp build-release")
        /\ tags = {} /\ NothingPublished
    /\ LastCallIs("promptStableVersionForNextTag", TRUE) => pc = "buildClean"

C6_Witness ==
    /\ pc = "exited"
    /\ exitAt = "promptStableVersionForNextTag"
    /\ npmDistTag = "next"
    /\ currentVersion.prereleaseLabel = ""

(* C7: once the release tag has been created it is never removed: in every  *)
(* state after createTag, also after the run has ended, the tag named after *)
(* the formatted version exists.                                            *)
C7_TagKept ==
    Did("createTag") => format(currentVersion) \in tags

\* a run that ended with the tag created and nothing published
C7_Witness ==
    /\ pc = "exited"
    /\ exitAt \in {"checkNpmAuthentication", "promptConfirmReleasePublish"}
    /\ format(currentVersion) \in tags
    /\ format(currentVersion) # manifestVersion
    /\ NothingPublished

(* C8: for every manifest version that parseVersionName rejects, the        *)
(* process ends with exit code 1 in the constructor, before any branch      *)
(* switch, tag creation or publish.                                         *)
C8_UnparseableStops ==
    (pc # "constructor" /\ parseVersionName(manifestVersion) = NULL) =>
        /\ pc = "exited" /\ exitCode = 1 /\ exitAt = "parseVersionName"
        /\ branch = InitialBranch
        /\ ~Did("switchToPublishBranch")
        /\ tags = {} /\ ~Did("createTag")
        /\ NothingPublished

C8_Witness ==
    /\ pc = "exited"
    /\ exitAt = "parseVersionName"
    /\ manifestVersion = <<"5", ".", "0">>
    /\ branch = InitialBranch

(* C9: the commit-title check passes if and only if the title of HEAD       *)
(* contains "chore: bump version"; for every other title the run ends with  *)
(* exit code 1 before the dist-tag prompt, the build, the tag and the       *)
(* publish.                                                                 *)
C9_CommitTitleGate ==
    LET matches == \E a \in 0..Len(commitTitle) : \E b \in a..Len(commitTitle) :
                       SubSeq(commitTitle, a + 1, b) = BUMP_PATTERN
    IN  Did("verifyLastCommitVersionBump") =>
            /\ DidWith("verifyLastCommitVersionBump", TRUE) <=> matches
            /\ matches => exitAt # "verifyLastCommitVersionBump"
            /\ ~matches =>
                /\ pc = "exited" /\ exitCode = 1
                /\ exitAt = "verifyLastCommitVersionBump"
                /\ ~Did("promptForNpmDistTag") /\ npmDistTag = ""
                /\ ~Did("gulp clean") /\ ~Did("gulp build-release")
                /\ tags = {} /\ NothingPublished

C9_Witness ==
    /\ pc = "exited"
    /\ exitAt = "verifyLastCommitVersionBump"
    /\ commitTitle = <<"c", "h", "o", "r", "e", ":", " ", "B", "u", "m", "p", " ",
                       "v", "e", "r", "s", "i", "o", "n">>

(* C10: at every point of every run the published packages are a prefix of  *)
(* releasePackages, and the published list only grows: no step, a publish   *)
(* failure or a termination included, unpublishes a package.                *)
C10_PublishedPrefix ==
    /\ [](IsPrefix(published, releasePackages))
    /\ [][IsPrefix(published, published')]_vars

\* a publish failure after one package was published
C10_Witness ==
    /\ pc = "exited"
    /\ exitAt = "publishPackageToNpm"
    /\ Len(published) >= 1
    /\ published[1] = releasePackages[1]

-----------------------------------------------------------------------------
(* Vocabulary of the order properties *)

\* positions in the call history of the successful calls of an operation
OkAt(op) == {k \in 1..Len(calls) : calls[k].op = op /\ calls[k].ok}

\* position of the first successful call of an operation, 0 when there is none
FirstOk(op) ==
    IF OkAt(op) = {} THEN 0
    ELSE CHOOSE k \in OkAt(op) : \A j \in OkAt(op) : k <= j

\* position of the first call of an operation, 0 when there is none
FirstCall(op) ==
    IF ~Did(op) THEN 0
    ELSE CHOOSE k \in 1..Len(calls) :
             calls[k].op = op /\ \A j \in 1..(k - 1) : calls[j].op # op

StrictlyIncreasing(s) ==
    /\ \A k \in 1..Len(s) : s[k] > 0
    /\ \A k \in 1..(Len(s) - 1) : s[k] < s[k + 1]

(* C11: with manifest version "5.0.0", HEAD titled "chore: bump version to  *)
(* 5.0.0", dist tag "latest", a clean tree, passing validations and empty   *)
(* publish error output (and every other collaborator succeeding, the user  *)
(* confirming), the finished run has created tag "5.0.0", published every   *)
(* package in list order, reported success and ended with exit code 0.      *)
C11_EndToEnd ==
    (/\ manifestVersion = <<"5", ".", "0", ".", "0">>
     /\ commitTitle = BUMP_PATTERN \o <<" ", "t", "o", " ", "5", ".", "0", ".", "0">>
     /\ Did("promptForNpmDistTag") => npmDistTag = "latest"
     /\ \A k \in 1..Len(calls) : calls[k].op # "isNpmAuthenticated" => calls[k].ok
     /\ pc = "exited")
    => /\ exitAt = "success"
       /\ exitCode = 0
       /\ tags = {<<"5", ".", "0", ".", "0">>}
       /\ published = releasePackages
       /\ Len(CallsOf("runNpmPublish")) = Len(releasePackages)

C11_Witness ==
    /\ pc = "exited"
    /\ exitAt = "success"
    /\ manifestVersion = <<"5", ".", "0", ".", "0">>
    /\ commitTitle = BUMP_PATTERN \o <<" ", "t", "o", " ", "5", ".", "0", ".", "0">>
    /\ npmDistTag = "latest"
    /\ tags = {<<"5", ".", "0", ".", "0">>}
    /\ published = releasePackages

(* C12: if the clean command or the build command exits with a non-zero     *)
(* status, the run ends with exit code 1 without validating, tagging or     *)
(* publishing; a failed clean command means the build command is never run. *)
C12_BuildFailureStops ==
    /\ (DidWith("gulp clean", FALSE) \/ DidWith("gulp build-release", FALSE)) =>
        /\ pc = "exited"
        /\ exitCode = 1
        /\ ~Did("checkReleasePackage")
        /\ tags = {} /\ ~Did("createTag")
        /\ NothingPublished
    /\ DidWith("gulp clean", FALSE) => ~Did("gulp build-release")

(* C13: whenever a package has been published, the run has already, in this *)
(* order: passed the uncommitted-changes check, switched to the publish     *)
(* branch, passed the commit-title check, passed the upstream check, chosen *)
(* the dist tag, built, validated every package successfully, created the   *)
(* tag, established NPM authentication and got a yes to the final prompt.   *)
C13_StepPrecedence ==
    published # <<>> =>
        LET auth == IF FirstOk("isNpmAuthenticated") # 0
                    THEN FirstOk("isNpmAuthenticated")
                    ELSE FirstOk("runInteractiveNpmLogin")
            validations == {k \in 1..Len(calls) : calls[k].op = "checkReleasePackage"}
        IN  /\ StrictlyIncreasing(
                   <<FirstOk("verifyNoUncommittedChanges"),
                     FirstOk("switchToPublishBranch"),
                     FirstOk("verifyLastCommitVersionBump"),
                     FirstOk("verifyLocalCommitsMatchUpstream"),
                     FirstOk("promptForNpmDistTag"),
                     FirstOk("gulp clean"),
                     FirstOk("gulp build-release"),
                     FirstOk("createTag"),
                     auth,
                     FirstOk("promptConfirmReleasePublish"),
                     FirstCall("runNpmPublish")>>)
            /\ Cardinality(validations) = Len(releasePackages)
            /\ \A k \in validations :
                /\ calls[k].ok
                /\ FirstOk("gulp build-release") < k
                /\ k < FirstOk("createTag")

\* a package was published after an interactive login
C13_Witness ==
    /\ published # <<>>
    /\ FirstOk("runInteractiveNpmLogin") # 0

(* C14: if the working tree has uncommitted changes the run ends there: the *)
(* dirty-tree check comes before the branch switch, and such a run switches *)
(* no branch, builds nothing, creates no tag and publishes nothing.         *)
C14_DirtyTreeStops ==
    /\ DidWith("verifyNoUncommittedChanges", FALSE) =>
        /\ pc = "exited" /\ exitCode = 1
        /\ exitAt = "verifyNoUncommittedChanges"
        /\ ~Did("switchToPublishBranch") /\ branch = InitialBranch
        /\ ~Did("gulp clean") /\ ~Did("gulp build-release")
        /\ tags = {} /\ ~Did("createTag")
        /\ NothingPublished
    /\ Did("switchToPublishBranch") =>
        /\ FirstOk("verifyNoUncommittedChanges") > 0
        /\ FirstOk("verifyNoUncommittedChanges") < FirstCall("switchToPublishBranch")

C14_Witness ==
    /\ pc = "exited"
    /\ exitAt = "verifyNoUncommittedChanges"
    /\ DidWith("verifyNoUncommittedChanges", FALSE)

(* C15: validation does not short-circuit: checkReleasePackage is called    *)
(* once per package of releasePackages, in list order, also after an        *)
(* earlier package failed, and the run is aborted only after all of them    *)
(* were checked.                                                            *)
C15_NoShortCircuit ==
    LET checks == CallsOf("checkReleasePackage") IN
    /\ Len(checks) <= Len(releasePackages)
    /\ \A k \in 1..Len(checks) : checks[k].arg = releasePackages[k]
    /\ (exitAt = "checkReleaseOutput" \/ Did("createTag")) =>
        Len(checks) = Len(releasePackages)
    /\ (pc = "exited" /\ DidWith("checkReleasePackage", FALSE)) =>
        (exitAt = "checkReleaseOutput" /\ Len(checks) = Len(releasePackages))

\* the first package failed and the later ones were still checked
C15_Witness ==
    LET checks == CallsOf("checkReleasePackage") IN
    /\ exitAt = "checkReleaseOutput"
    /\ Len(checks) = Len(releasePackages)
    /\ ~checks[1].ok
    /\ checks[Len(checks)].ok

(* C16: no step other than the interactive login is retried: the dirty-tree *)
(* check, the branch switch, the commit-title check, the upstream check,    *)
(* the dist-tag prompt, the two build commands, the tag creation and the    *)
(* final confirmation each run at most once, and each package's publish is  *)
(* attempted at most once.                                                  *)
C16_NoRetry ==
    LET pubs == CallsOf("runNpmPublish") IN
    /\ \A op \in {"verifyNoUncommittedChanges", "switchToPublishBranch",
                  "verifyLastCommitVersionBump", "verifyLocalCommitsMatchUpstream",
                  "promptForNpmDistTag", "gulp clean", "gulp build-release",
                  "createTag", "promptConfirmReleasePublish"} :
           Len(CallsOf(op)) <= 1
    /\ \A j \in 1..Len(pubs) : \A k \in 1..Len(pubs) :
           pubs[j].arg = pubs[k].arg => j = k

\* a complete run: every step ran once, the login was needed, all packages went out
C16_Witness ==
    /\ pc = "exited"
    /\ exitAt = "success"
    /\ Len(CallsOf("runNpmPublish")) = Len(releasePackages)
    /\ Len(CallsOf("runInteractiveNpmLogin")) = 1
    /\ Len(CallsOf("createTag")) = 1

(* C17: a run that ends with exit code 0 has published every package of     *)
(* releasePackages or none; a partially published list ends with exit code  *)
(* 1, and both user-decline exits happen before the first publish call.     *)
C17_ExitZeroAllOrNone ==
    pc = "exited" =>
        /\ exitCode = 0 => published \in {<<>>, releasePackages}
        /\ published \notin {<<>>, releasePackages} => exitCode = 1
        /\ exitAt \in {"promptStableVersionForNextTag", "promptConfirmReleasePublish"}
               => NothingPublished

\* two packages published, then a failure
C17_Witness ==
    /\ pc = "exited"
    /\ exitCode = 1
    /\ Len(published) = 2
    /\ Len(published) < Len(releasePackages)

(* C18: the dist tag is chosen once, before the build, and every            *)
(* runNpmPublish call is made with that tag; once chosen, the tag never     *)
(* changes.                                                                 *)
C18_DistTagFixed ==
    /\ [](/\ Len(CallsOf("promptForNpmDistTag")) <= 1
          /\ Did("promptForNpmDistTag") =>
                 calls[FirstCall("promptForNpmDistTag")].tag = npmDistTag
          /\ Did("gulp clean") =>
                 /\ FirstCall("promptForNpmDistTag") > 0
                 /\ FirstCall("promptForNpmDistTag") < FirstCall("gulp clean")
          /\ \A k \in 1..Len(calls) :
                 calls[k].op = "runNpmPublish" =>
                     /\ calls[k].tag = npmDistTag
                     /\ FirstCall("promptForNpmDistTag") > 0
                     /\ calls[k].tag = calls[FirstCall("promptForNpmDistTag")].tag)
    /\ [][npmDistTag # "" => npmDistTag' = npmDistTag]_vars

C18_Witness ==
    /\ npmDistTag = "next"
    /\ Len(CallsOf("runNpmPublish")) >= 2
    /\ \A k \in 1..Len(calls) : calls[k].op = "runNpmPublish" => calls[k].tag = "next"

(* C19: after switchToPublishBranch succeeded the repository stays on the   *)
(* publish branch: no later failure or declined prompt switches it back, so *)
(* every run that ends after the switch ends on the publish branch.         *)
C19_StaysOnPublishBranch ==
    DidWith("switchToPublishBranch", TRUE) =>
        /\ branch = PublishBranchName(currentVersion)
        /\ branch # InitialBranch

\* a run that failed right after the switch
C19_Witness ==
    /\ pc = "exited"
    /\ exitAt = "verifyLastCommitVersionBump"
    /\ DidWith("switchToPublishBranch", TRUE)
    /\ branch = PublishBranchName(currentVersion)

-----------------------------------------------------------------------------
(* Termination *)

PcOrder ==
    <<"constructor", "verifyNoUncommittedChanges", "switchToPublishBranch",
      "verifyLastCommitVersionBump", "verifyLocalCommitsMatchUpstream",
      "promptForNpmDistTag", "promptStableVersionForNextTag", "buildClean",
      "buildRelease", "checkReleaseOutput", "createTag", "checkNpmAuthentication",
      "loginLoop", "afterLoginLoop", "promptConfirmReleasePublish", "publish",
      "exited">>

PcPos(p) == CHOOSE k \in 1..Len(PcOrder) : PcOrder[k] = p

\* how far the run has come: the position in the script, then the loop counter
Progress ==
    PcPos(pc) * (Len(releasePackages) + MAX_NPM_LOGIN_TRIES + 2)
    + (IF pc \in {"checkReleaseOutput", "publish"} THEN pkgIdx
       ELSE IF pc = "loginLoop" THEN i ELSE 0)

(* C20: every run terminates, provided every external command and prompt    *)
(* returns: each step moves the run forward, the login loop runs at most 2  *)
(* times, the validation and publish loops at most once per package, and    *)
(* the run ends in an exit with code 0 or 1 or in the success report.       *)
C20_Terminates ==
    /\ <>(pc = "exited")
    /\ [][Progress' > Progress]_vars
    /\ [](/\ Len(CallsOf("runInteractiveNpmLogin")) <= 2
          /\ Len(CallsOf("checkReleasePackage")) <= Len(releasePackages)
          /\ Len(CallsOf("runNpmPublish")) <= Len(releasePackages)
          /\ pc = "exited" => (exitCode \in {0, 1} /\ exitAt # ""))

\* a finished run that went twice through the login loop
C20_Witness ==
    /\ pc = "exited"
    /\ Len(CallsOf("runInteractiveNpmLogin")) = 2
    /\ Len(CallsOf("checkReleasePackage")) = Len(releasePackages)

====
